---- MODULE Spec2Model ----
(***************************************************************************)
(* State-machine model of the tracer daemon core:                          *)
(*   - TracerClient (src/src/tracer_client.rs): the orchestrator that owns *)
(*     the event log and the batched-submission timer;                     *)
(*   - run_server (src/src/daemon_communication/server.rs): the IPC accept *)
(*     loop and its command handlers;                                      *)
(*   - initialize (src/src/load_ebpf/mod.rs): the per-CPU perf-buffer      *)
(*     reader tasks.                                                       *)
(* Every await of the source is a step boundary; code between two awaits   *)
(* is one atomic step.                                                     *)
(***************************************************************************)
EXTENDS Integers, Sequences, FiniteSets, TLC

\* ------------------------------------------------------------------ bounds
MaxTime == 2
MaxProc == 2
MaxConn == 2
MaxKernel == 2

CPUs == {0, 1}

\* ------------------------------------------------------- OS processes
\* Process identifiers and their names; odd pids run the target command.
Pids == 1..MaxProc
Name(p) == IF p % 2 = 1 THEN "sleep" ELSE "bash"

\* ------------------------------------------------------- configuration
\* ConfigFile as produced by the configuration loader.  Two on-disk
\* contents are enough to tell the polling interval from the submission
\* interval and an old configuration from a new one.
Cfg1 ==
  [api_key |-> "k1", service_url |-> "u1",
   process_polling_interval_ms |-> 1, batch_submission_interval_ms |-> 2,
   targets |-> {"sleep"}]
Cfg2 ==
  [api_key |-> "k2", service_url |-> "u2",
   process_polling_interval_ms |-> 2, batch_submission_interval_ms |-> 1,
   targets |-> {"sleep"}]
Configs == {Cfg1, Cfg2}

\* ------------------------------------------------------- IPC inputs
\* What one connection can carry, by the properties the server inspects:
\* read  : result of read_to_string (non-UTF-8 content is a read error)
\* json  : "invalid" | "array" (valid JSON, not an object) | "object"
\* command : "absent" | "not_string" | a command name
\* field : state of the command's payload field (message / tags / log)
CommandNames ==
  {"terminate", "log", "alert", "start", "end", "refresh_config", "tag",
   "log_short_lived_process", "ping", "bogus"}
FieldCommands == {"log", "alert", "tag", "log_short_lived_process"}

Malformed ==
  { [read |-> "err", json |-> "invalid", command |-> "absent", field |-> "absent"],
    [read |-> "ok", json |-> "invalid", command |-> "absent", field |-> "absent"],
    [read |-> "ok", json |-> "array", command |-> "absent", field |-> "absent"],
    [read |-> "ok", json |-> "object", command |-> "absent", field |-> "absent"] }
\* No connection is being handled.
NoMsg == [read |-> "none", json |-> "none", command |-> "none", field |-> "none"]

Inputs ==
  Malformed
  \cup { [read |-> "ok", json |-> "object", command |-> "not_string", field |-> "absent"] }
  \cup { [read |-> "ok", json |-> "object", command |-> c, field |-> "absent"] :
           c \in CommandNames }
  \cup { [read |-> "ok", json |-> "object", command |-> c, field |-> f] :
           c \in FieldCommands, f \in {"valid", "invalid"} }

VARIABLES
  now,                \* Instant::now(), a monotonic clock
  disk_config,        \* the configuration file on disk
  tracer_client,      \* the TracerClient fields the model needs
  mutex,              \* Arc<Mutex<TracerClient>>: "free" or its holder
  config,             \* Arc<RwLock<Config>>: the shared configuration copy
  submit_pc,          \* position of the submit_batched_data caller
  data,               \* payload built at line 54, in flight during the send
  in_flight,          \* outbound sends of flushes not yet resolved
  failed_interval,    \* interval in force when the last call failed in collect_metrics, else 0
  submit_result,      \* what the last submit_batched_data returned
  call_at,            \* Instant::now() read at line 46 by the call in progress
  flushed,            \* every event drained into a payload so far, in order
  last_flush,         \* the latest drain: its instants, interval and outcome
  appended,           \* every event ever appended to the log, in order
  procs,              \* the OS process table: "new", "live" or "dead" per pid
  srv_pc,             \* position of run_server
  srv_msg,            \* the connection being handled
  config_file,        \* result of ConfigManager::load_config (line 63)
  accepted,           \* connections accepted so far
  srv_last,           \* how the previous connection ended
  slp_count,          \* events appended by log_short_lived_process
  cancellation_token, \* CancellationToken::is_cancelled()
  reader_pc,          \* position of each per-CPU reader task
  perf_events,        \* unread records in each CPU's perf buffer
  kernel_total,       \* records produced by the kernel probe
  running_logged      \* names logged by info!("running: {}") per CPU

vars ==
  << now, disk_config, tracer_client, mutex, config, submit_pc, data,
     in_flight, failed_interval, submit_result, call_at, flushed, last_flush,
     appended, procs, srv_pc, srv_msg,
     config_file, accepted, srv_last, slp_count, cancellation_token, reader_pc, perf_events, kernel_total,
     running_logged >>

submit_vars ==
  << submit_pc, data, in_flight, failed_interval, submit_result, call_at,
     flushed, last_flush >>
srv_vars ==
  << srv_pc, srv_msg, config_file, accepted, srv_last, slp_count >>
reader_vars == << reader_pc, perf_events, kernel_total, running_logged >>

\* ------------------------------------------------------- helpers
Range(s) == { s[i] : i \in 1..Len(s) }

Event(src, n) == [src |-> src, n |-> n]

\* ------------------------------------------------------- TracerClient
\* TracerClient::new: the submission threshold is taken from
\* process_polling_interval_ms; last_sent is the construction instant.
TracerClient_new(cfg, t) ==
  [api_key |-> cfg.api_key,
   service_url |-> cfg.service_url,
   last_sent |-> t,
   interval |-> cfg.process_polling_interval_ms,
   logs |-> << >>,
   targets |-> cfg.targets,
   seen |-> {}]

\* reload_config_file: replaces the live interval / URL / API key in place.
reload_config_file(tc, cfg) ==
  [tc EXCEPT !.api_key = cfg.api_key,
             !.service_url = cfg.service_url,
             !.interval = cfg.batch_submission_interval_ms]

\* EventRecorder: append one record / clear.
record_event(logs, e) == Append(logs, e)

\* Faulty variant of clear: the log keeps its events.
clear_keep(logs) == logs
\* self.logs.clear()
clear(logs) == << >>

\* Faulty variants of the timing check: always due; due only after more
\* than the interval.
IsDue_always(t, last_sent, interval) == TRUE
IsDue_strict(t, last_sent, interval) == t - last_sent > interval
\* The timing check of submit_batched_data.
IsDue(t, last_sent, interval) == t - last_sent >= interval

Init ==
  /\ now = 0
  /\ disk_config \in Configs
  /\ tracer_client = TracerClient_new(disk_config, 0)
  /\ mutex = "free"
  /\ config = disk_config
  /\ submit_pc = "idle"
  /\ data = << >>
  /\ in_flight = 0
  /\ failed_interval = 0
  /\ submit_result = "none"
  /\ call_at = 0
  /\ flushed = << >>
  /\ last_flush = [n |-> 0, failed |-> 0, ok |-> "none", last_sent |-> 0,
                   due_at |-> 0, interval |-> 0]
  /\ appended = << >>
  /\ procs = [p \in Pids |-> "new"]
  /\ srv_pc = "accept"
  /\ srv_msg = NoMsg
  /\ config_file = disk_config
  /\ accepted = 0
  /\ srv_last = "none"
  /\ slp_count = 0
  /\ cancellation_token = FALSE
  /\ reader_pc = [c \in CPUs |-> "check"]
  /\ perf_events = [c \in CPUs |-> 0]
  /\ kernel_total = 0
  /\ running_logged = [c \in CPUs |-> 0]

\* ------------------------------------------------------- environment
Tick ==
  /\ now < MaxTime
  /\ now' = now + 1
  /\ UNCHANGED << disk_config, tracer_client, mutex, config, appended, procs,
                  cancellation_token >>
  /\ UNCHANGED submit_vars
  /\ UNCHANGED srv_vars
  /\ UNCHANGED reader_vars

\* The operator edits the configuration file.
DiskChange ==
  /\ \E c \in Configs \ {disk_config} : disk_config' = c
  /\ UNCHANGED << now, tracer_client, mutex, config, appended, procs,
                  cancellation_token >>
  /\ UNCHANGED submit_vars
  /\ UNCHANGED srv_vars
  /\ UNCHANGED reader_vars

\* ------------------------------------------------------- discovery
\* A process is started / ends.  Pids are not reused.
spawn(p) ==
  /\ procs[p] = "new"
  /\ procs' = [procs EXCEPT ![p] = "live"]
  /\ UNCHANGED << now, disk_config, tracer_client, mutex, config, appended,
                  cancellation_token >>
  /\ UNCHANGED submit_vars
  /\ UNCHANGED srv_vars
  /\ UNCHANGED reader_vars

exit(p) ==
  /\ procs[p] = "live"
  /\ procs' = [procs EXCEPT ![p] = "dead"]
  /\ UNCHANGED << now, disk_config, tracer_client, mutex, config, appended,
                  cancellation_token >>
  /\ UNCHANGED submit_vars
  /\ UNCHANGED srv_vars
  /\ UNCHANGED reader_vars

Live == { p \in Pids : procs[p] = "live" }

\* The elements of a set of pids in increasing order.
RECURSIVE InOrder(_)
InOrder(S) ==
  IF S = {} THEN << >>
  ELSE LET m == CHOOSE x \in S : \A y \in S : x <= y
       IN  << m >> \o InOrder(S \ {m})

StartEvents(S) == [i \in 1..Len(InOrder(S)) |-> Event("start", InOrder(S)[i])]
EndEvents(S) == [i \in 1..Len(InOrder(S)) |-> Event("end", InOrder(S)[i])]

\* ProcessWatcher: the live processes seen for the first time whose name
\* is a target, and the monitored processes that no longer exist.
FirstSeen(seen, targets, live) ==
  { p \in live : p \notin seen /\ Name(p) \in targets }
Completed(seen, live) == { p \in seen : p \notin live }

\* ProcessWatcher::poll_processes: a start event and an entry for every
\* first-seen match, an end event and a removal for every monitored process
\* that is gone.  The result is the new monitored set and the events.
ProcessWatcher_poll(seen, targets, live) ==
  [seen |-> (seen \cup FirstSeen(seen, targets, live)) \ Completed(seen, live),
   events |-> StartEvents(FirstSeen(seen, targets, live))
                \o EndEvents(Completed(seen, live))]

\* ProcessWatcher::remove_completed_processes: the end-of-life half alone.
ProcessWatcher_remove_completed(seen, live) ==
  [seen |-> seen \ Completed(seen, live),
   events |-> EndEvents(Completed(seen, live))]

\* Faulty variant of poll_processes: the monitored set is updated but the
\* events never reach the event log.
poll_processes_no_log ==
  /\ mutex = "free"
  /\ LET r == ProcessWatcher_poll(tracer_client.seen, tracer_client.targets, Live)
     IN  /\ tracer_client' = [tracer_client EXCEPT !.seen = r.seen]
         /\ UNCHANGED appended
  /\ UNCHANGED << now, disk_config, mutex, config, procs, cancellation_token >>
  /\ UNCHANGED submit_vars
  /\ UNCHANGED srv_vars
  /\ UNCHANGED reader_vars

\* TracerClient::poll_processes, called with the orchestrator lock held for
\* the whole call (&mut self): the watcher polls the process table and
\* records into self.logs.
poll_processes ==
  /\ mutex = "free"
  /\ LET r == ProcessWatcher_poll(tracer_client.seen, tracer_client.targets, Live)
     IN  /\ tracer_client' =
              [tracer_client EXCEPT !.seen = r.seen, !.logs = @ \o r.events]
         /\ appended' = appended \o r.events
  /\ UNCHANGED << now, disk_config, mutex, config, procs, cancellation_token >>
  /\ UNCHANGED submit_vars
  /\ UNCHANGED srv_vars
  /\ UNCHANGED reader_vars

\* TracerClient::remove_completed_processes, under the same lock.
remove_completed_processes ==
  /\ mutex = "free"
  /\ LET r == ProcessWatcher_remove_completed(tracer_client.seen, Live)
     IN  /\ tracer_client' =
              [tracer_client EXCEPT !.seen = r.seen, !.logs = @ \o r.events]
         /\ appended' = appended \o r.events
  /\ UNCHANGED << now, disk_config, mutex, config, procs, cancellation_token >>
  /\ UNCHANGED submit_vars
  /\ UNCHANGED srv_vars
  /\ UNCHANGED reader_vars

\* ------------------------------------------------------- submit_batched_data
\* Faulty variant of submit_lock: the call starts without exclusive access
\* to the orchestrator.
submit_lock_not_exclusive ==
  /\ mutex' = "submit"
  /\ submit_pc' = "check"
  /\ UNCHANGED << now, disk_config, tracer_client, config, appended, procs,
                  cancellation_token, data, in_flight, failed_interval,
                  submit_result, call_at,
                  flushed, last_flush >>
  /\ UNCHANGED srv_vars
  /\ UNCHANGED reader_vars

\* A task locks the orchestrator and calls submit_batched_data, which takes
\* &mut self: the guard is held until the call, its send included, has
\* returned.  Any number of tasks may be waiting for the lock; submit_pc is
\* the position of the one that holds it.
submit_lock ==
  /\ mutex = "free"
  /\ mutex' = "submit"
  /\ submit_pc' = "check"
  /\ UNCHANGED << now, disk_config, tracer_client, config, appended, procs,
                  cancellation_token, data, in_flight, failed_interval,
                  submit_result, call_at,
                  flushed, last_flush >>
  /\ UNCHANGED srv_vars
  /\ UNCHANGED reader_vars

\* Line 46: the timing check.  Not due: Ok(()) at line 63.
submit_check ==
  /\ submit_pc = "check"
  /\ IF IsDue(now, tracer_client.last_sent, tracer_client.interval)
       THEN /\ submit_pc' = "collect"
            /\ call_at' = now
            /\ UNCHANGED << mutex, submit_result >>
       ELSE /\ submit_pc' = "idle"
            /\ submit_result' = "ok"
            /\ mutex' = "free"
            /\ UNCHANGED call_at
  /\ UNCHANGED << now, disk_config, tracer_client, config, appended, procs,
                  cancellation_token, data, in_flight, flushed, last_flush >>
  /\ failed_interval' =
       IF IsDue(now, tracer_client.last_sent, tracer_client.interval)
         THEN failed_interval ELSE 0
  /\ UNCHANGED srv_vars
  /\ UNCHANGED reader_vars

\* Faulty variant of submit_drain: last_sent is stamped before the metrics
\* are collected, so a failed collection still moves it.
submit_drain_stamps_on_error(metrics_ok) ==
  /\ submit_pc = "collect"
  /\ IF metrics_ok
       THEN LET ev == Event("metrics", last_flush.n + 1)
                logs == record_event(tracer_client.logs, ev)
            IN  /\ data' = logs
                /\ in_flight' = in_flight + 1
                /\ failed_interval' = 0
                /\ tracer_client' =
                     [tracer_client EXCEPT !.last_sent = now, !.logs = clear(logs)]
                /\ appended' = Append(appended, ev)
                /\ flushed' = flushed \o logs
                /\ last_flush' =
                     [n |-> last_flush.n + 1, failed |-> last_flush.failed,
                      ok |-> "pending", last_sent |-> now,
                      due_at |-> call_at, interval |-> tracer_client.interval]
                /\ submit_pc' = "send"
                /\ UNCHANGED << mutex, submit_result >>
       ELSE /\ submit_result' = "err"
            /\ failed_interval' = tracer_client.interval
            /\ submit_pc' = "idle"
            /\ mutex' = "free"
            /\ tracer_client' = [tracer_client EXCEPT !.last_sent = now]
            /\ UNCHANGED << data, in_flight, appended, flushed, last_flush >>
  /\ call_at' = 0
  /\ UNCHANGED << now, disk_config, config, procs, cancellation_token >>
  /\ UNCHANGED srv_vars
  /\ UNCHANGED reader_vars

\* Lines 47-59.  collect_metrics returns a Result: Err leaves through `?`
\* before anything else is touched; Ok has appended the metrics event.
\* Then the payload is built from the whole log, last_sent is stamped and
\* the log is cleared.
submit_drain(metrics_ok) ==
  /\ submit_pc = "collect"
  /\ IF metrics_ok
       THEN LET ev == Event("metrics", last_flush.n + 1)
                logs == record_event(tracer_client.logs, ev)
            IN  /\ data' = logs
                /\ in_flight' = in_flight + 1
                /\ failed_interval' = 0
                /\ tracer_client' =
                     [tracer_client EXCEPT !.last_sent = now, !.logs = clear(logs)]
                /\ appended' = Append(appended, ev)
                /\ flushed' = flushed \o logs
                /\ last_flush' =
                     [n |-> last_flush.n + 1, failed |-> last_flush.failed,
                      ok |-> "pending", last_sent |-> now,
                      due_at |-> call_at, interval |-> tracer_client.interval]
                /\ submit_pc' = "send"
                /\ UNCHANGED << mutex, submit_result >>
       ELSE /\ submit_result' = "err"
            /\ failed_interval' = tracer_client.interval
            /\ submit_pc' = "idle"
            /\ mutex' = "free"
            /\ UNCHANGED << data, in_flight, tracer_client, appended, flushed,
                            last_flush >>
  /\ call_at' = 0
  /\ UNCHANGED << now, disk_config, config, procs, cancellation_token >>
  /\ UNCHANGED srv_vars
  /\ UNCHANGED reader_vars

\* Faulty variant of submit_send: a failed batch is put back into the log.
submit_send_requeue(ok) ==
  /\ submit_pc = "send"
  /\ submit_result' = IF ok THEN "ok" ELSE "err"
  /\ last_flush' = [last_flush EXCEPT !.ok = IF ok THEN "yes" ELSE "no",
                                      !.failed = IF ok THEN @ ELSE @ + 1]
  /\ tracer_client' =
       [tracer_client EXCEPT !.logs = IF ok THEN @ ELSE data \o @]
  /\ data' = << >>
  /\ in_flight' = in_flight - 1
  /\ UNCHANGED failed_interval
  /\ submit_pc' = "idle"
  /\ mutex' = "free"
  /\ UNCHANGED << now, disk_config, config, appended, procs,
                  cancellation_token, call_at, flushed >>
  /\ UNCHANGED srv_vars
  /\ UNCHANGED reader_vars

\* Line 61: send_http_event(&data).await resolves; its result is the
\* result of the call.  Nothing is put back.
submit_send(ok) ==
  /\ submit_pc = "send"
  /\ submit_result' = IF ok THEN "ok" ELSE "err"
  /\ last_flush' = [last_flush EXCEPT !.ok = IF ok THEN "yes" ELSE "no",
                                      !.failed = IF ok THEN @ ELSE @ + 1]
  /\ data' = << >>
  /\ in_flight' = in_flight - 1
  /\ UNCHANGED failed_interval
  /\ submit_pc' = "idle"
  /\ mutex' = "free"
  /\ UNCHANGED << now, disk_config, tracer_client, config, appended, procs,
                  cancellation_token, call_at, flushed >>
  /\ UNCHANGED srv_vars
  /\ UNCHANGED reader_vars

\* ------------------------------------------------------- run_server
\* Faulty variant of Envelope: as_object().unwrap() without the is_object
\* check before it.
Envelope_no_object_check(m) ==
  IF m.read = "err" THEN "continue"
  ELSE IF m.json = "invalid" THEN "continue"
  ELSE IF m.json # "object" THEN "panic"
  ELSE IF m.command = "absent" THEN "continue"
  ELSE IF m.command = "not_string" THEN "panic"
  ELSE "command"
\* Lines 131-159: what the accept loop does with a connection's content
\* before any handler is chosen.  "continue" drops the connection,
\* "panic" is an unwrap() on None, "command" goes on to the dispatch.
Envelope(m) ==
  IF m.read = "err" THEN "continue"
  ELSE IF m.json = "invalid" THEN "continue"
  ELSE IF m.json # "object" THEN "continue"
  ELSE IF m.command = "absent" THEN "continue"
  ELSE IF m.command = "not_string" THEN "panic"
  ELSE "command"

\* The handlers' synchronous part: None (nothing to await), a panic of an
\* unwrap(), or the future that run_server awaits.
process_log_command(m) ==
  IF m.field = "absent" THEN "None"
  ELSE IF m.field = "invalid" THEN "panic"
  ELSE "send"

process_alert_command(m) ==
  IF m.field = "absent" THEN "None"
  ELSE IF m.field = "invalid" THEN "panic"
  ELSE "send"

process_start_run_command == "send"

process_end_run_command == "send"

process_refresh_config_command == "refresh"

\* Faulty variant of process_tag_command: no contains_key check.
process_tag_command_unchecked(m) ==
  IF m.field = "valid" THEN "send" ELSE "panic"
process_tag_command(m) ==
  IF m.field = "absent" THEN "None"
  ELSE IF m.field = "invalid" THEN "panic"
  ELSE "send"

process_log_short_lived_process_command(m) ==
  IF m.field = "absent" THEN "None"
  ELSE IF m.field = "invalid" THEN "panic"
  ELSE "append"

\* Faulty variant of Dispatch: the default arm cancels too.
Dispatch_cancel_on_unknown(m) ==
  CASE m.command = "terminate" -> "terminate"
    [] m.command = "log" -> process_log_command(m)
    [] m.command = "alert" -> process_alert_command(m)
    [] m.command = "start" -> process_start_run_command
    [] m.command = "end" -> process_end_run_command
    [] m.command = "refresh_config" -> process_refresh_config_command
    [] m.command = "tag" -> process_tag_command(m)
    [] m.command = "log_short_lived_process" ->
         process_log_short_lived_process_command(m)
    [] m.command = "ping" -> "None"
    [] OTHER -> "terminate"
\* Lines 168-187: the match on the command name.
Dispatch(m) ==
  CASE m.command = "terminate" -> "terminate"
    [] m.command = "log" -> process_log_command(m)
    [] m.command = "alert" -> process_alert_command(m)
    [] m.command = "start" -> process_start_run_command
    [] m.command = "end" -> process_end_run_command
    [] m.command = "refresh_config" -> process_refresh_config_command
    [] m.command = "tag" -> process_tag_command(m)
    [] m.command = "log_short_lived_process" ->
         process_log_short_lived_process_command(m)
    [] m.command = "ping" -> "None"
    [] OTHER -> "None"

\* Faulty variant of srv_accept: the next connection is taken while the
\* current command's outbound call is still pending.
srv_accept_while_pending(m) ==
  /\ srv_pc \in {"accept", "outbound"}
  /\ accepted < MaxConn
  /\ accepted' = accepted + 1
  /\ srv_msg' = m
  /\ srv_pc' = "parse"
  /\ UNCHANGED << now, disk_config, tracer_client, mutex, config, appended,
                  procs, cancellation_token, config_file, srv_last,
                  slp_count >>
  /\ UNCHANGED submit_vars
  /\ UNCHANGED reader_vars

\* Lines 127-131: accept a connection and read it to the end.  The accept
\* is at the top of the loop, reached only when the previous iteration's
\* future.await (line 190) has completed.
srv_accept(m) ==
  /\ srv_pc = "accept"
  /\ accepted < MaxConn
  /\ accepted' = accepted + 1
  /\ srv_msg' = m
  /\ srv_pc' = "parse"
  /\ UNCHANGED << now, disk_config, tracer_client, mutex, config, appended,
                  procs, cancellation_token, config_file, srv_last,
                  slp_count >>
  /\ UNCHANGED submit_vars
  /\ UNCHANGED reader_vars

\* Lines 133-159: validate the envelope.
srv_parse ==
  /\ srv_pc = "parse"
  /\ LET e == Envelope(srv_msg)
     IN  /\ srv_pc' = CASE e = "continue" -> "accept"
                        [] e = "panic" -> "panicked"
                        [] e = "command" -> "snapshot"
         /\ srv_msg' = IF e = "continue" THEN NoMsg ELSE srv_msg
         /\ srv_last' = IF e = "continue" THEN "dropped" ELSE srv_last
  /\ UNCHANGED << now, disk_config, tracer_client, mutex, config, appended,
                  procs, cancellation_token, config_file, accepted,
                  slp_count >>
  /\ UNCHANGED submit_vars
  /\ UNCHANGED reader_vars

\* Faulty variant of srv_snapshot: URL and key are copied without taking
\* the orchestrator lock.
srv_snapshot_unlocked ==
  /\ srv_pc = "snapshot"
  /\ srv_pc' = "match"
  /\ UNCHANGED << now, disk_config, tracer_client, mutex, config, appended,
                  procs, cancellation_token, srv_msg, config_file, accepted,
                  srv_last, slp_count >>
  /\ UNCHANGED submit_vars
  /\ UNCHANGED reader_vars

\* Lines 161-166: lock the orchestrator, copy URL and key, unlock at the end
\* of the block.  Every command that reached line 159 goes through here.
srv_snapshot ==
  /\ srv_pc = "snapshot"
  /\ mutex = "free"
  /\ srv_pc' = "match"
  /\ UNCHANGED << now, disk_config, tracer_client, mutex, config, appended,
                  procs, cancellation_token, srv_msg, config_file, accepted,
                  srv_last, slp_count >>
  /\ UNCHANGED submit_vars
  /\ UNCHANGED reader_vars

\* Lines 168-187, the match, run with the lock already released (tasks on
\* other worker threads run meanwhile): terminate cancels and returns Ok; a
\* handler that returned None is done; the others leave a future that line
\* 190 awaits ("outbound" is an outbound call issued with the copied URL
\* and key).
srv_dispatch ==
  /\ srv_pc = "match"
  /\ LET d == Dispatch(srv_msg)
     IN  /\ cancellation_token' = (cancellation_token \/ d = "terminate")
         /\ srv_pc' = CASE d = "terminate" -> "returned_ok"
                        [] d = "None" -> "accept"
                        [] d = "panic" -> "panicked"
                        [] d = "send" -> "outbound"
                        [] d = "refresh" -> "refresh_lock"
                        [] d = "append" -> "slp_lock"
         /\ config_file' = IF d = "refresh" THEN disk_config ELSE config_file
         /\ srv_msg' = IF d = "None" THEN NoMsg ELSE srv_msg
         /\ srv_last' = CASE d = "None" /\ srv_msg.command = "bogus" -> "dropped"
                          [] d = "None" /\ srv_msg.command \in FieldCommands -> "missing_field"
                          [] d = "None" /\ srv_msg.command = "ping" -> "noop"
                          [] OTHER -> srv_last
  /\ UNCHANGED << now, disk_config, tracer_client, mutex, config, appended,
                  procs, accepted, slp_count >>
  /\ UNCHANGED submit_vars
  /\ UNCHANGED reader_vars

\* Line 190, future.await? on an outbound send (log, alert, start, end,
\* tag): Ok goes round the loop, Err leaves run_server through `?`.
srv_outbound(ok) ==
  /\ srv_pc = "outbound"
  /\ srv_pc' = IF ok THEN "accept" ELSE "returned_err"
  /\ srv_msg' = IF ok THEN NoMsg ELSE srv_msg
  /\ srv_last' = IF ok THEN "done" ELSE srv_last
  /\ UNCHANGED << now, disk_config, tracer_client, mutex, config, appended,
                  procs, cancellation_token, config_file, accepted,
                  slp_count >>
  /\ UNCHANGED submit_vars
  /\ UNCHANGED reader_vars

\* Faulty variant of srv_refresh_reload: the orchestrator is locked but its
\* live configuration is not reloaded.
srv_refresh_reload_skipped ==
  /\ srv_pc = "refresh_lock"
  /\ mutex = "free"
  /\ srv_pc' = "refresh_write"
  /\ UNCHANGED << now, disk_config, tracer_client, mutex, config, appended,
                  procs, cancellation_token, srv_msg, config_file, accepted,
                  srv_last, slp_count >>
  /\ UNCHANGED submit_vars
  /\ UNCHANGED reader_vars

\* Line 70: tracer_client.lock().await.reload_config_file(&config_file).
srv_refresh_reload ==
  /\ srv_pc = "refresh_lock"
  /\ mutex = "free"
  /\ tracer_client' = reload_config_file(tracer_client, config_file)
  /\ srv_pc' = "refresh_write"
  /\ UNCHANGED << now, disk_config, mutex, config, appended, procs,
                  cancellation_token, srv_msg, config_file, accepted,
                  srv_last, slp_count >>
  /\ UNCHANGED submit_vars
  /\ UNCHANGED reader_vars

\* Line 71: config.write().await.clone_from(&config_file).
srv_refresh_write ==
  /\ srv_pc = "refresh_write"
  /\ config' = config_file
  /\ srv_pc' = "accept"
  /\ srv_msg' = NoMsg
  /\ srv_last' = "refreshed"
  /\ UNCHANGED << now, disk_config, tracer_client, mutex, appended, procs,
                  cancellation_token, config_file, accepted, slp_count >>
  /\ UNCHANGED submit_vars
  /\ UNCHANGED reader_vars

\* Faulty variant of srv_slp_append: the record is captured twice.
srv_slp_append_twice ==
  /\ srv_pc = "slp_lock"
  /\ mutex = "free"
  /\ slp_count' = slp_count + 1
  /\ tracer_client' =
       [tracer_client EXCEPT
          !.logs = record_event(record_event(@, Event("ipc", slp_count + 1)),
                                Event("ipc", slp_count + 1))]
  /\ appended' =
       Append(Append(appended, Event("ipc", slp_count + 1)),
              Event("ipc", slp_count + 1))
  /\ srv_pc' = "accept"
  /\ srv_msg' = NoMsg
  /\ srv_last' = "done"
  /\ UNCHANGED << now, disk_config, mutex, config, procs,
                  cancellation_token, config_file, accepted >>
  /\ UNCHANGED submit_vars
  /\ UNCHANGED reader_vars

\* Lines 108-112: lock, fill_logs_with_short_lived_process(log), unlock.
srv_slp_append ==
  /\ srv_pc = "slp_lock"
  /\ mutex = "free"
  /\ slp_count' = slp_count + 1
  /\ tracer_client' =
       [tracer_client EXCEPT
          !.logs = record_event(@, Event("ipc", slp_count + 1))]
  /\ appended' = Append(appended, Event("ipc", slp_count + 1))
  /\ srv_pc' = "accept"
  /\ srv_msg' = NoMsg
  /\ srv_last' = "done"
  /\ UNCHANGED << now, disk_config, mutex, config, procs,
                  cancellation_token, config_file, accepted >>
  /\ UNCHANGED submit_vars
  /\ UNCHANGED reader_vars

\* ------------------------------------------------------- kernel ingestion
\* The probe writes a record into one CPU's perf buffer.
kernel_event(c) ==
  /\ kernel_total < MaxKernel
  /\ kernel_total' = kernel_total + 1
  /\ perf_events' = [perf_events EXCEPT ![c] = @ + 1]
  /\ UNCHANGED << now, disk_config, tracer_client, mutex, config, appended,
                  procs, cancellation_token, reader_pc, running_logged >>
  /\ UNCHANGED submit_vars
  /\ UNCHANGED srv_vars

\* Line 69: the loop condition, read at the top of every iteration.
reader_check(c) ==
  /\ reader_pc[c] = "check"
  /\ reader_pc' =
       [reader_pc EXCEPT ![c] = IF cancellation_token THEN "exited" ELSE "read_events"]
  /\ UNCHANGED << now, disk_config, tracer_client, mutex, config, appended,
                  procs, cancellation_token, perf_events, kernel_total,
                  running_logged >>
  /\ UNCHANGED submit_vars
  /\ UNCHANGED srv_vars

\* Lines 70-78: read_events(..).await resolves only when the buffer is
\* readable.  "ok": every record is decoded and its name logged;
\* "read_err": read_events returned Err and unwrap() panics;
\* "bad_len": a record's len exceeds comm, the slice at line 76 panics.
reader_read(c, outcome) ==
  /\ reader_pc[c] = "read_events"
  /\ perf_events[c] > 0
  /\ IF outcome = "ok"
       THEN /\ running_logged' = [running_logged EXCEPT ![c] = @ + perf_events[c]]
            /\ perf_events' = [perf_events EXCEPT ![c] = 0]
            /\ reader_pc' = [reader_pc EXCEPT ![c] = "check"]
       ELSE /\ reader_pc' = [reader_pc EXCEPT ![c] = "panicked"]
            /\ perf_events' =
                 [perf_events EXCEPT ![c] = IF outcome = "bad_len" THEN 0 ELSE @]
            /\ UNCHANGED running_logged
  /\ UNCHANGED << now, disk_config, tracer_client, mutex, config, appended,
                  procs, cancellation_token, kernel_total >>
  /\ UNCHANGED submit_vars
  /\ UNCHANGED srv_vars

\* ------------------------------------------------------- specifications
\* The connections that reach the orchestrator's state: a short-lived
\* process record to append, a configuration reload, and terminate.
OrchestratorInputs ==
  { m \in Inputs :
      \/ m.command = "log_short_lived_process" /\ m.field = "valid"
      \/ m.command \in {"refresh_config", "terminate"} }

\* The one process whose start and end the flush model lets discovery see.
FlushPids == {1}

\* The event log and its flush: the clock, the discovery poll, the
\* submission cycle, and the IPC server fed with the connections that
\* append to the log or change the interval.
NextFlush ==
  \/ Tick
  \/ DiskChange
  \/ \E p \in FlushPids : spawn(p)
  \/ \E p \in FlushPids : exit(p)
  \/ poll_processes
  \/ remove_completed_processes
  \/ submit_lock
  \/ submit_check
  \/ \E m \in BOOLEAN : submit_drain(m)
  \/ \E ok \in BOOLEAN : submit_send(ok)
  \/ \E m \in OrchestratorInputs : srv_accept(m)
  \/ srv_parse
  \/ srv_snapshot
  \/ srv_dispatch
  \/ srv_refresh_reload
  \/ srv_refresh_write
  \/ srv_slp_append

FlushSpec == Init /\ [][NextFlush]_vars

\* The IPC server fed with every kind of connection, next to a submission
\* cycle that contends for the orchestrator lock and drains the log.
NextServer ==
  \/ Tick
  \/ DiskChange
  \/ submit_lock
  \/ submit_check
  \/ \E m \in BOOLEAN : submit_drain(m)
  \/ \E ok \in BOOLEAN : submit_send(ok)
  \/ \E m \in Inputs : srv_accept(m)
  \/ srv_parse
  \/ srv_snapshot
  \/ srv_dispatch
  \/ \E ok \in BOOLEAN : srv_outbound(ok)
  \/ srv_refresh_reload
  \/ srv_refresh_write
  \/ srv_slp_append

Spec == Init /\ [][NextServer]_vars

\* Process discovery: processes start and end, the watcher polls and cleans
\* up, and the IPC server captures short-lived processes reported to it.
ShortLivedInputs ==
  { m \in Inputs : m.command = "log_short_lived_process" /\ m.field = "valid" }

NextDiscovery ==
  \/ \E p \in Pids : spawn(p)
  \/ \E p \in Pids : exit(p)
  \/ poll_processes
  \/ remove_completed_processes
  \/ \E m \in ShortLivedInputs : srv_accept(m)
  \/ srv_parse
  \/ srv_snapshot
  \/ srv_dispatch
  \/ srv_slp_append

DiscoverySpec == Init /\ [][NextDiscovery]_vars

\* The IPC server with the kernel-ingestion reader tasks.  The reader tasks
\* share nothing with the rest of the daemon but the cancellation token,
\* which only run_server sets, so they are explored with the server alone.
NextIngest ==
  \/ \E m \in Inputs : srv_accept(m)
  \/ srv_parse
  \/ srv_snapshot
  \/ srv_dispatch
  \/ \E ok \in BOOLEAN : srv_outbound(ok)
  \/ srv_refresh_reload
  \/ srv_refresh_write
  \/ srv_slp_append
  \/ \E c \in CPUs : kernel_event(c)
  \/ \E c \in CPUs : reader_check(c)
  \/ \E c \in CPUs, o \in {"ok", "read_err", "bad_len"} : reader_read(c, o)

\* The runtime schedules every task that can run: the reader tasks and the
\* server's own steps are weakly fair.  Clients connecting and the probe
\* firing are not.
Fairness ==
  /\ \A c \in CPUs : WF_vars(reader_check(c))
  /\ \A c \in CPUs : WF_vars(\E o \in {"ok", "read_err", "bad_len"} : reader_read(c, o))
  /\ WF_vars(srv_parse)
  /\ WF_vars(srv_snapshot)
  /\ WF_vars(srv_dispatch)
  /\ WF_vars(\E ok \in BOOLEAN : srv_outbound(ok))
  /\ WF_vars(srv_refresh_reload)
  /\ WF_vars(srv_refresh_write)
  /\ WF_vars(srv_slp_append)

IngestSpec == Init /\ [][NextIngest]_vars /\ Fairness

\* ------------------------------------------------------- claims
NoDuplicates(q) == \A i, j \in 1..Len(q) : q[i] = q[j] => i = j

SubmitReturns == submit_pc = "check" /\ submit_pc' # "check"
NotDueNow == now - tracer_client.last_sent < tracer_client.interval
Drains == last_flush'.n = last_flush.n + 1

\* C1: whatever the interleaving of appends (discovery polls, IPC
\* log_short_lived_process commands, the metrics collected by a flush) with
\* flushes, the payloads drained so far followed by the current log are
\* exactly the events appended so far, in the order of their appends: no
\* event is drained twice, none is left out, and the payload in flight is
\* the batch that was in the log when it was drained.
C1_DrainedExactlyOnceInOrder ==
  /\ appended = flushed \o tracer_client.logs
  /\ submit_pc = "send" =>
       /\ Len(data) <= Len(flushed)
       /\ data = SubSeq(flushed, Len(flushed) - Len(data) + 1, Len(flushed))
       /\ tracer_client.logs = << >>

C1_Witness ==
  /\ last_flush.n >= 2
  /\ \E i, j \in 1..Len(flushed) :
       /\ i < j
       /\ flushed[i] = Event("start", 1)
       /\ flushed[j] = Event("end", 1)
  /\ Event("ipc", 1) \in Range(flushed)
  /\ tracer_client.logs # << >>

\* C2: a submit_batched_data call whose timing check finds less than the
\* interval elapsed since last_sent returns Ok, sends nothing and leaves the
\* log and last_sent as they were; and the timing checks of two calls that
\* both drain a payload are at least one interval apart.
C2_NotDueIsNoOp ==
  [][ /\ (SubmitReturns /\ NotDueNow) =>
           /\ submit_pc' = "idle"
           /\ submit_result' = "ok"
           /\ tracer_client' = tracer_client
           /\ UNCHANGED << flushed, last_flush, data >>
      /\ (Drains /\ last_flush.n > 0) =>
           last_flush'.due_at - last_flush.due_at >= last_flush'.interval ]_vars

C2_Witness ==
  /\ submit_pc = "idle"
  /\ last_flush.ok = "no"
  /\ submit_result = "ok"
  /\ now - tracer_client.last_sent < tracer_client.interval

\* C3 as claimed: every call that is due attempts exactly one send.
C3_EveryDueCallSends ==
  [][ (submit_pc = "collect" /\ submit_pc' # "collect") =>
        (submit_pc' = "send" /\ Drains) ]_vars

\* C3 as amended: a call that is due goes on to collect the metrics; unless
\* collect_metrics fails (the call then returns the error with nothing sent
\* and nothing changed), it attempts exactly one send, and while that send
\* is unresolved the log is empty and last_sent holds the instant stamped
\* before the send, no earlier than the timing check.
C3_DueCallSendsOnceUnlessMetricsFail ==
  /\ [] (submit_pc = "send" =>
           /\ tracer_client.logs = << >>
           /\ last_flush.ok = "pending"
           /\ tracer_client.last_sent = last_flush.last_sent
           /\ last_flush.last_sent >= last_flush.due_at)
  /\ [][ /\ (SubmitReturns /\ ~NotDueNow) => submit_pc' = "collect"
         /\ (submit_pc = "collect" /\ submit_pc' # "collect") =>
              \/ /\ submit_pc' = "send"
                 /\ Drains
                 /\ tracer_client'.last_sent = now
                 /\ Len(data') = Len(tracer_client.logs) + 1
              \/ /\ submit_pc' = "idle"
                 /\ submit_result' = "err"
                 /\ tracer_client' = tracer_client
                 /\ UNCHANGED << flushed, last_flush, data >>
         /\ submit_pc = "send" =>
              /\ submit_pc' \in {"send", "idle"}
              /\ last_flush'.n = last_flush.n ]_vars

C3_Witness ==
  /\ submit_pc = "send"
  /\ Len(data) >= 3
  /\ now > last_flush.due_at

\* C4: when the send of a flush fails, the call returns the error, nothing
\* is put back into the log and last_sent keeps the instant stamped for
\* that flush; no drained event is ever in the log again or drained a
\* second time; and the timing check of the next flush is at least one
\* interval after that instant.
C4_FailedBatchIsLost ==
  /\ [] /\ NoDuplicates(flushed)
        /\ Range(flushed) \cap Range(tracer_client.logs) = {}
        /\ last_flush.n > 0 => tracer_client.last_sent = last_flush.last_sent
  /\ [][ /\ (submit_pc = "send" /\ submit_pc' = "idle" /\ last_flush'.ok = "no") =>
              /\ submit_result' = "err"
              /\ tracer_client' = tracer_client
              /\ flushed' = flushed
         /\ (Drains /\ last_flush.failed > 0) =>
              last_flush'.due_at - last_flush.last_sent >= last_flush'.interval ]_vars

C4_Witness ==
  /\ last_flush.failed >= 1
  /\ last_flush.ok = "yes"
  /\ last_flush.n >= 2
  /\ submit_result = "ok"

Ping == [read |-> "ok", json |-> "object", command |-> "ping", field |-> "absent"]

Parses == srv_pc = "parse" /\ srv_pc' # "parse"
Dispatches == srv_pc = "match" /\ srv_pc' # "match"

\* Nothing of the orchestrator, the shared configuration or the
\* cancellation token changes, and the server is back in its accept loop
\* with no handler future left to await.
BackToAcceptUntouched ==
  /\ srv_pc' = "accept"
  /\ tracer_client' = tracer_client
  /\ UNCHANGED << mutex, config, cancellation_token, appended, flushed,
                  slp_count, accepted >>

\* C5: a connection that cannot be read, is not JSON, is JSON but not an
\* object or is an object without `command` is dropped by the validation,
\* and one that names an unrecognized command is dropped by the match: no
\* handler is dispatched, no orchestrator state changes, cancellation is
\* not triggered and the server is back in its accept loop; a `ping` that
\* is accepted afterwards is handled and leaves the server accepting.
C5_MalformedIsDropped ==
  [][ /\ (Parses /\ srv_msg \in Malformed) =>
           (BackToAcceptUntouched /\ srv_last' = "dropped")
      /\ (Dispatches /\ srv_msg.command \notin (CommandNames \ {"bogus"})) =>
           (BackToAcceptUntouched /\ srv_last' = "dropped")
      /\ (Parses /\ srv_msg = Ping) => srv_pc' = "snapshot"
      /\ (Dispatches /\ srv_msg = Ping) =>
           (BackToAcceptUntouched /\ srv_last' = "noop") ]_vars

C5_Witness ==
  /\ srv_last = "dropped"
  /\ srv_pc = "snapshot"
  /\ srv_msg = Ping

\* C6: no handler error ends run_server: the accept loop never returns an
\* error.
C6_HandlerErrorKeepsServerAlive == srv_pc # "returned_err"

\* C7: log or alert without `message`, tag without `tags` and
\* log_short_lived_process without `log` are no-ops: no outbound call is
\* issued, the event log and the configuration are unchanged, nothing
\* panics and the server is back in its accept loop.
C7_MissingFieldIsNoOp ==
  [][ (Dispatches /\ srv_msg.command \in FieldCommands /\ srv_msg.field = "absent") =>
        (BackToAcceptUntouched /\ srv_last' = "missing_field") ]_vars

C7_Witness ==
  /\ srv_last = "missing_field"
  /\ srv_pc = "accept"
  /\ accepted < MaxConn

\* C8: no client input makes the server panic.
C8_NoInputCrashesServer == srv_pc # "panicked"

\* C9: the cancellation token becomes set only in the step in which
\* run_server handles `terminate`; that step also makes run_server return
\* Ok, after which no connection is accepted or dispatched; nothing else
\* sets the token.
C9_OnlyTerminateCancels ==
  /\ [] (cancellation_token => (srv_pc = "returned_ok" /\ srv_msg.command = "terminate"))
  /\ [][ /\ (cancellation_token' /\ ~cancellation_token) =>
              (Dispatches /\ srv_msg.command = "terminate")
         /\ (Dispatches /\ srv_msg.command = "terminate") =>
              (cancellation_token' /\ srv_pc' = "returned_ok")
         /\ srv_pc = "returned_ok" =>
              (srv_pc' = "returned_ok" /\ UNCHANGED << accepted, srv_msg >>) ]_vars

C9_Witness ==
  /\ cancellation_token
  /\ srv_pc = "returned_ok"
  /\ srv_msg.command = "terminate"
  /\ accepted < MaxConn

\* C10: once the cancellation token is set, every per-CPU reader task
\* eventually ends.
C10_ReadersExitAfterCancel ==
  cancellation_token ~> (\A c \in CPUs : reader_pc[c] \in {"exited", "panicked"})

\* C11: a read error or a decode error in one reader task does not end
\* that task: no reader task is ever stopped by a failure (a task leaves its
\* loop only through the cancellation check).
C11_ReaderSurvivesErrors == \A c \in CPUs : reader_pc[c] # "panicked"

RECURSIVE SumOver(_, _)
SumOver(f, S) ==
  IF S = {} THEN 0
  ELSE LET x == CHOOSE y \in S : TRUE IN f[x] + SumOver(f, S \ {x})

KernelEvents(q) == SelectSeq(q, LAMBDA e : e.src = "kernel")

\* C12: every record a reader task has decoded has been forwarded to
\* short-lived-process capture: the event log has received one
\* kernel-sourced event per decoded record.
C12_DecodedRecordsAreForwarded ==
  Len(KernelEvents(appended)) = SumOver(running_logged, CPUs)

ShortLivedHandled == srv_pc = "slp_lock" /\ srv_pc' # "slp_lock"

Count(q, e) == Len(SelectSeq(q, LAMBDA x : x = e))
Matching(p) == Name(p) \in tracer_client.targets

C14_NextCheckUsesReloadedInterval ==
  [][(SubmitReturns /\ srv_last = "refreshed" /\ srv_pc # "refresh_lock") =>
       (submit_pc' = "collect" <=>
          now - tracer_client.last_sent >= config_file.batch_submission_interval_ms)]_vars

\* After a handled refresh_config, a timing check has found the call due at
\* an elapsed time that reaches the reloaded submission interval but not the
\* other interval of that configuration.
C14_Witness ==
  /\ srv_last = "refreshed"
  /\ srv_pc = "accept"
  /\ submit_pc = "collect"
  /\ tracer_client.interval = config.batch_submission_interval_ms
  /\ now - tracer_client.last_sent >= config.batch_submission_interval_ms
  /\ now - tracer_client.last_sent < config.process_polling_interval_ms

\* C15: the live configuration of the orchestrator and the shared Config
\* copy never differ in a state another task can observe: at every moment
\* they hold the same API key and the same service URL.
C15_ConfigCopiesNeverDiffer ==
  /\ tracer_client.api_key = config.api_key
  /\ tracer_client.service_url = config.service_url

\* C16: for a client as built by TracerClient::new (no reload has happened),
\* a timing check finds the call due exactly when the elapsed time has
\* reached the batch-submission interval of the configuration.
C16_ThresholdIsBatchInterval ==
  [][(SubmitReturns /\ accepted = 0) =>
       (submit_pc' = "collect" <=>
          now - tracer_client.last_sent >= config.batch_submission_interval_ms)]_vars

\* C17: the flush does not hold the orchestrator lock while its outbound
\* send is awaited.  (The IPC handlers hold the lock only inside a single
\* statement, never across their outbound call or the Config write lock.)
C17_SendAwaitedWithLockReleased == submit_pc = "send" => mutex # "submit"

\* C18: at most one flush's outbound send is in flight, and a call of
\* submit_batched_data starts its timing check only when no send of an
\* earlier flush is unresolved.
C18_OneSendInFlight ==
  /\ [](in_flight <= 1)
  /\ [][(submit_pc' = "check" /\ submit_pc # "check") => in_flight = 0]_vars

\* The send of a second flush is in flight after the first one resolved.
C18_Witness ==
  /\ submit_pc = "send"
  /\ in_flight = 1
  /\ last_flush.n = 2

HandlerPending ==
  srv_pc \in {"outbound", "refresh_lock", "refresh_write", "slp_lock"}

\* C20: a connection is accepted only when no handler of an earlier
\* command is pending, and the cancellation token is set only then too: a
\* terminate takes effect after the earlier command's call has resolved.
C20_OneConnectionAtATime ==
  /\ [][accepted' # accepted => ~HandlerPending /\ srv_pc = "accept"]_vars
  /\ [][(cancellation_token' /\ ~cancellation_token) =>
          ~HandlerPending /\ srv_msg.command = "terminate"]_vars

\* A terminate was handled on the second connection, after the handler of
\* the first command had run to completion.
C20_Witness ==
  /\ cancellation_token
  /\ srv_pc = "returned_ok"
  /\ srv_last = "done"
  /\ accepted = 2

Snapshots == srv_pc = "snapshot" /\ srv_pc' # "snapshot"
Cancels == cancellation_token' /\ ~cancellation_token

\* Every validated command takes the orchestrator lock, which must be free,
\* before the match; the match, the handlers and the cancellation come only
\* after that snapshot.
LockTakenBeforeDispatch ==
  /\ (srv_pc = "parse" /\ srv_pc' # "parse" /\ Envelope(srv_msg) = "command") =>
       srv_pc' = "snapshot"
  /\ Snapshots => (mutex = "free" /\ srv_pc' = "match" /\ ~Cancels)
  /\ srv_pc' = "match" => srv_pc \in {"snapshot", "match"}
  /\ (srv_pc' # srv_pc /\ (HandlerPending' \/ srv_pc' = "returned_ok")) =>
       srv_pc \in {"match", "outbound", "refresh_lock"}
  /\ Cancels => (srv_pc = "match" /\ srv_msg.command = "terminate")

\* C21 as claimed: every validated command takes the orchestrator lock
\* before it is dispatched, and at the moment terminate sets the
\* cancellation signal no other task holds that lock.
C21_CancelOnlyWhileLockFree ==
  [][LockTakenBeforeDispatch /\ (Cancels => mutex = "free")]_vars

\* C21 as amended: every validated command, terminate, ping and
\* unrecognized ones included, takes the orchestrator lock (waiting until it
\* is free) before it is dispatched, and the cancellation signal is set only
\* by a terminate that has taken and released the lock.
C21_CancelOnlyAfterSnapshot == [][LockTakenBeforeDispatch]_vars

\* A terminate has taken and released the lock and is about to cancel while
\* a flush, started in between, holds the lock.
C21_Witness ==
  /\ srv_pc = "match"
  /\ srv_msg.command = "terminate"
  /\ ~cancellation_token
  /\ mutex = "submit"

MetricsFail == submit_pc = "collect" /\ submit_pc' = "idle"

\* When collect_metrics fails, the call returns the error with no send, the
\* log, the last-submission instant and everything drained so far as they
\* were, and the call would still be due.
FailureChangesNothing ==
  MetricsFail =>
    /\ submit_result' = "err"
    /\ tracer_client' = tracer_client
    /\ UNCHANGED << data, in_flight, flushed, last_flush, appended >>
    /\ now - tracer_client'.last_sent >= tracer_client'.interval

\* C22 as claimed: a due call that fails while collecting metrics changes
\* nothing, and the next call is again due.
C22_NextCallIsDueAgain ==
  [][ /\ FailureChangesNothing
      /\ (SubmitReturns /\ failed_interval > 0) => submit_pc' = "collect" ]_vars

\* C22 as amended: a due call that fails while collecting metrics changes
\* nothing, and the next call is again due unless the interval has been
\* raised by a configuration reload in between.
C22_NextCallIsDueUnlessIntervalRaised ==
  [][ /\ FailureChangesNothing
      /\ (SubmitReturns /\ failed_interval > 0
            /\ tracer_client.interval <= failed_interval) =>
           submit_pc' = "collect" ]_vars

\* The call after a failed collection has found itself due again, with the
\* events appended before the failure still in the log.
C22_Witness ==
  /\ submit_pc = "collect"
  /\ failed_interval > 0
  /\ Len(tracer_client.logs) >= 1
  /\ last_flush.n = 0

====
